---- MODULE Spec2Model ----
(***************************************************************************)
(* A model of wordpress-plugin-downloader.py: the registry enumeration     *)
(* (get_plugins, download_all_plugins.process_page), the JSON cache, and   *)
(* the sequential download/extract loop (download_and_extract_plugin).     *)
(*                                                                         *)
(* Conventions.  Python's None is the empty set and a present optional     *)
(* value v is {v}.  A path is the sequence of its segments below the root  *)
(* of the drive that holds the download directory.  A timestamp string is  *)
(* the tuple of the seven fields "%Y-%m-%d %I:%M%p %Z" has to find in it.   *)
(***************************************************************************)
EXTENDS Integers, Sequences, FiniteSets, TLC

\* ------------------------------------------------------------- bounds
\* Largest info.pages the registry reports on page 1.
MaxTotalPages == 2

\* ------------------------------------------------- inputs (small sets)
None == {}
Some(v) == {v}
TheValue(opt) == CHOOSE v \in opt : TRUE

\* datetime.now().year as read at line 123.
NowYear == 2026

MinInstallsChoices == {0, 20}
MaxInstallsChoices == {None, Some(10)}
MaxPagesChoices == {None, Some(0), Some(1)}
OsNames == {"posix", "nt"}

\* A last_updated string, field by field.
Stamp(y, h) == <<y, 6, 15, h, 30, "pm", "GMT">>
EmptyString == <<0, 0, 0, 0, 0, "", "">>

\* A plugin object of the registry's JSON: keys holds the keys present.
AllKeys == {"slug", "active_installs", "last_updated", "download_link"}
Plugin(s, n, ts, ks) ==
    [slug |-> s, active_installs |-> n, last_updated |-> ts,
     download_link |-> s, keys |-> ks]

rFoo == Plugin("foo", 10, Stamp(NowYear, 3), AllKeys)
rBar == Plugin("bar", 20, Stamp(NowYear - 2, 12), AllKeys)
rOld == Plugin("old", 20, Stamp(NowYear - 3, 3), AllKeys)
rBad == Plugin("bad", 20, Stamp(NowYear, 13), AllKeys)
rNoInst == Plugin("foo", 0, Stamp(NowYear - 1, 1), AllKeys \ {"active_installs"})
rNoDate == Plugin("bar", 20, EmptyString, AllKeys \ {"last_updated"})
\* A plugin whose slug is a relative path that climbs.
rUp == Plugin("../../up", 10, Stamp(NowYear, 3), AllKeys)

Records == {rFoo, rBar, rOld, rBad, rNoInst, rNoDate, rUp}

\* The "plugins" arrays a page of the registry may hold.
PageBodies == { <<rBad, rFoo, rNoDate>>, <<rNoInst, rOld, rBar>> }

\* ------------------------------------------------------ archive members
\* A zip member: root is a leading "/" in its name; corrupt is ""
\* for sound data, "crc" for data whose CRC-32 check fails (BadZipFile) and
\* "zlib" for a broken deflate stream (zlib.error, which is none of the
\* exception classes the program names).
Member(rt, ps, dir, dat, cor) ==
    [root |-> rt, parts |-> ps, is_dir |-> dir, data |-> dat, corrupt |-> cor]
File(ps, dat) == Member(FALSE, ps, FALSE, dat, "")

ZGood == << File(<<"a.php">>, "v1"), File(<<"inc", "b.php">>, "v1") >>
ZNew == << File(<<"a.php">>, "v2"),
           File(<<"..", "evil.php">>, "v2"),
           File(<<"c.php">>, "v2") >>
ZEvil == << File(<<"..", "..", "evil.php">>, "x"),
            Member(TRUE, <<"abs.php">>, FALSE, "x", ""),
            File(<<"inc", "..", "evil.php">>, "x") >>
ZCrc == << File(<<"a.php">>, "v1"),
           Member(FALSE, <<"c.php">>, FALSE, "v1", "crc") >>
ZZlib == << Member(FALSE, <<"a.php">>, FALSE, "v1", "zlib") >>

\* Directory entries ("inc/", "empty/"): pathlib drops the trailing "/".
ZDir == << Member(FALSE, <<"inc">>, TRUE, "", ""),
           File(<<"inc", "b.php">>, "v1"),
           Member(FALSE, <<"empty">>, TRUE, "", "") >>

Archives == {ZGood, ZNew, ZEvil, ZCrc, ZZlib, ZDir}

Range(s) == {s[i] : i \in 1 .. Len(s)}

\* ------------------------------------------------------- registry client
\* What one GET of a registry page can come back as: a transport or status
\* failure, a body that is not JSON, or a JSON object.
Response(k, hasInfo, np, ps) ==
    [kind |-> k, has_info |-> hasInfo, pages |-> np, plugins |-> ps]
NetErr == Response("neterr", FALSE, 0, <<>>)
BadJson == Response("badjson", FALSE, 0, <<>>)
NoInfo == Response("json", FALSE, 0, <<>>)
PageOne(np) == Response("json", TRUE, np, <<>>)
PageOf(ps) == Response("json", TRUE, 1, ps)

\* Page 1 as the registry really answers: "info" and the page's plugins.
PageOneWith(np, ps) == Response("json", TRUE, np, ps)

BootstrapResponses ==
    {NetErr, BadJson, NoInfo}
    \cup {PageOne(np) : np \in 0 .. MaxTotalPages}
    \cup {PageOneWith(MaxTotalPages, <<rBad, rFoo, rNoDate>>)}
TaskResponses == {NetErr, BadJson} \cup {PageOf(ps) : ps \in PageBodies}

\* get_plugins: the parsed body, or None after a requests.RequestException
\* (requests' JSONDecodeError is one).
get_plugins(resp) == IF resp.kind = "json" THEN Some(resp) ELSE None

\* ---------------------------------------------------------- the filter
Get(plugin, key, default) ==
    IF key \in plugin.keys THEN plugin[key] ELSE default

DaysIn(mo) == IF mo = 2 THEN 29 ELSE IF mo \in {4, 6, 9, 11} THEN 30 ELSE 31

\* datetime.strptime(s, "%Y-%m-%d %I:%M%p %Z"): the year, or None when the
\* call raises.
strptime(s) ==
    IF /\ s[1] \in 1 .. 9999
       /\ s[2] \in 1 .. 12
       /\ s[3] \in 1 .. DaysIn(s[2])
       /\ s[4] \in 1 .. 12
       /\ s[5] \in 0 .. 59
       /\ s[6] \in {"am", "pm"}
       /\ s[7] \in {"UTC", "GMT"}
    THEN Some(s[1])
    ELSE None

\* The test with the upper bound left out.
InstallsOutOfBoundsNoMax(installs, min_i, max_i) == installs < min_i

\* The test with the lower bound made strict.
InstallsOutOfBoundsStrict(installs, min_i, max_i) ==
    \/ installs <= min_i
    \/ max_i # None /\ installs > TheValue(max_i)

\* Lines 33-36 and 115-118: the install-count test both phases apply.
InstallsOutOfBounds(installs, min_i, max_i) ==
    \/ installs < min_i
    \/ max_i # None /\ installs > TheValue(max_i)

\* Lines 120-126: TRUE when the loop continues past the plugin.
StaleOrUnparsed(plugin) ==
    LET updated == strptime(Get(plugin, "last_updated", EmptyString))
    IN  \/ updated = None
        \/ TheValue(updated) < NowYear - 2

\* Lines 113-128, one iteration: does the loop append the plugin?
Appended(plugin, min_i, max_i) ==
    /\ ~InstallsOutOfBounds(Get(plugin, "active_installs", 0), min_i, max_i)
    /\ ~StaleOrUnparsed(plugin)

RECURSIVE FilterLoop(_, _, _, _, _)
FilterLoop(plugins, i, result, min_i, max_i) ==
    IF i > Len(plugins) THEN result
    ELSE FilterLoop(plugins, i + 1,
                    IF Appended(plugins[i], min_i, max_i)
                    THEN Append(result, plugins[i]) ELSE result,
                    min_i, max_i)

\* process_page: the accepted plugins of the page, [] when the fetch or the
\* parse failed (data is None and data.get raises inside the try).
process_page(resp, min_i, max_i) ==
    LET data == get_plugins(resp)
    IN  IF data = None THEN <<>>
        ELSE FilterLoop(TheValue(data).plugins, 1, <<>>, min_i, max_i)

\* The range with max_pages left out.
PageRangeIgnoringMax(total, max_pages) == 1 .. total

\* Lines 103-107.
PageRange(total, max_pages) ==
    LET total_pages == IF max_pages # None
                       THEN (IF total < TheValue(max_pages) THEN total
                             ELSE TheValue(max_pages))
                       ELSE total
    IN  1 .. total_pages

\* ----------------------------------------------------------- the cache
\* The cache file's text as a token sequence: json.dump writes "[", then
\* per plugin "{", its present keys each followed by its value, "}", and "]".
Tok(tag, s, n, ts) == [tag |-> tag, s |-> s, n |-> n, ts |-> ts]
Punct(tag) == Tok(tag, "", 0, EmptyString)
KeyOrder == <<"slug", "active_installs", "last_updated", "download_link">>

EncodeValue(plugin, key) ==
    CASE key = "active_installs" -> Tok("int", "", plugin[key], EmptyString)
      [] key = "last_updated" -> Tok("stamp", "", 0, plugin[key])
      [] OTHER -> Tok("str", plugin[key], 0, EmptyString)

RECURSIVE EncodeKeys(_, _)
EncodeKeys(plugin, i) ==
    IF i > Len(KeyOrder) THEN <<>>
    ELSE (IF KeyOrder[i] \in plugin.keys
          THEN <<Tok("key", KeyOrder[i], 0, EmptyString),
                  EncodeValue(plugin, KeyOrder[i])>>
          ELSE <<>>) \o EncodeKeys(plugin, i + 1)

RECURSIVE EncodeList(_, _)
EncodeList(plugins, i) ==
    IF i > Len(plugins) THEN <<>>
    ELSE <<Punct("{")>> \o EncodeKeys(plugins[i], 1) \o <<Punct("}")>>
         \o EncodeList(plugins, i + 1)

\* The list written with one plugin per slug only.
RECURSIVE UniqueBySlug(_, _, _)
UniqueBySlug(plugins, i, acc) ==
    IF i > Len(plugins) THEN acc
    ELSE UniqueBySlug(plugins, i + 1,
                      IF \E j \in 1 .. Len(acc) : acc[j].slug = plugins[i].slug
                      THEN acc ELSE Append(acc, plugins[i]))
json_dump_unique(plugins) ==
    <<Punct("[")>> \o EncodeList(UniqueBySlug(plugins, 1, <<>>), 1) \o <<Punct("]")>>

json_dump(plugins) == <<Punct("[")>> \o EncodeList(plugins, 1) \o <<Punct("]")>>

Blank == [slug |-> "", active_installs |-> 0, last_updated |-> EmptyString,
          download_link |-> "", keys |-> {}]

SetKey(obj, key, tok) ==
    CASE key = "active_installs" ->
             [obj EXCEPT !.active_installs = tok.n, !.keys = @ \cup {key}]
      [] key = "last_updated" ->
             [obj EXCEPT !.last_updated = tok.ts, !.keys = @ \cup {key}]
      [] key = "slug" ->
             [obj EXCEPT !.slug = tok.s, !.keys = @ \cup {key}]
      [] OTHER ->
             [obj EXCEPT !.download_link = tok.s, !.keys = @ \cup {key}]

\* json.load: one pass over the tokens, obj the object being read.
RECURSIVE DecodeFrom(_, _, _, _)
DecodeFrom(text, i, obj, acc) ==
    IF i > Len(text) \/ text[i].tag = "]" THEN acc
    ELSE CASE text[i].tag = "[" -> DecodeFrom(text, i + 1, obj, acc)
           [] text[i].tag = "{" -> DecodeFrom(text, i + 1, Blank, acc)
           [] text[i].tag = "}" -> DecodeFrom(text, i + 1, Blank, Append(acc, obj))
           [] OTHER -> DecodeFrom(text, i + 2,
                                  SetKey(obj, text[i].s, text[i + 1]), acc)

json_load(text) == DecodeFrom(text, 1, Blank, <<>>)

\* ------------------------------------------------------ paths and files
IsPrefix(p, q) == Len(p) <= Len(q) /\ SubSeq(q, 1, Len(p)) = p
Prefixes(p) == {SubSeq(p, 1, k) : k \in 1 .. Len(p)}
Parent(p) == SubSeq(p, 1, Len(p) - 1)

\* Path.resolve() where no symbolic link is involved: ".." segments folded.
RECURSIVE ResolveFrom(_, _, _)
ResolveFrom(p, i, acc) ==
    IF i > Len(p) THEN acc
    ELSE ResolveFrom(p, i + 1,
                     IF p[i] = ".."
                     THEN (IF acc = <<>> THEN acc ELSE Parent(acc))
                     ELSE Append(acc, p[i]))
Resolve(p) == ResolveFrom(p, 1, <<>>)

DownloadDir == <<"dl">>
PluginsDir == DownloadDir \o <<"plugins">>
\* The segments pathlib finds in the slug when line 39 joins it.
SlugParts(slug) == IF slug = "../../up" THEN <<"..", "..", "up">> ELSE <<slug>>

\* Lines 39-40.
PluginPath(slug) == Resolve(PluginsDir \o SlugParts(slug))

\* member_filename.is_absolute(): a PurePosixPath is absolute when it has a
\* root; a PureWindowsPath needs a drive as well, and no member name here
\* has one.
IsAbsolute(os, m) == IF os = "nt" THEN FALSE ELSE m.root

\* Line 62: the members the loop skips.
MemberSkipped(os, m) == ".." \in Range(m.parts) \/ IsAbsolute(os, m)

\* Lines 65-66: joining a rooted name replaces everything below the drive.
DestPath(plugin_path, m) ==
    Resolve(IF m.root THEN m.parts ELSE plugin_path \o m.parts)

FilePaths(files) == {f.path : f \in files}
FilesUnder(files, p) == {f \in files : IsPrefix(p, f.path)}
DirsUnder(dirs, p) == {d \in dirs : IsPrefix(p, d)}
Exists(dirs, files, p) == p \in dirs \/ p \in FilePaths(files)

\* dest_dir.mkdir(parents=True, exist_ok=True) raises OSError when dest_dir
\* or one of its ancestors is a file.
MkdirFails(files, d) == Prefixes(d) \cap FilePaths(files) # {}
\* open(dest_file_path, "wb") raises OSError on a directory.
OpenFails(dirs, p) == p \in dirs
WriteFile(files, p, dat) ==
    {f \in files : f.path # p} \cup {[path |-> p, data |-> dat]}

\* shutil.rmtree(p, ignore_errors=True) that could not delete the files in
\* keep: they and the directories above them stay.
\* An rmtree that deletes nothing.
RmtreeFilesKeepAll(files, p, keep) == files

RmtreeFiles(files, p, keep) == (files \ FilesUnder(files, p)) \cup keep
RmtreeDirs(dirs, p, keep) ==
    (dirs \ DirsUnder(dirs, p))
    \cup {d \in DirsUnder(dirs, p) : \E f \in keep : IsPrefix(d, f.path)}

\* What one GET of a download link can come back as: a transport or status
\* failure, bytes that are no zip file, or a zip archive.
Fetched(k, z) == [kind |-> k, zip |-> z]
FetchResponses ==
    {Fetched("neterr", <<>>), Fetched("notzip", <<>>)}
    \cup {Fetched("zip", z) : z \in Archives}

\* An OSError the environment raises on a member (disk full, permissions):
\* at the mkdir of line 73 or while line 77 copies into the opened file.
Faults == {"none", "mkdir", "copy"}

\* What the environment of a run may do: the arguments the program is given
\* and the answers and failures it meets.
Env(cs, bs, ts, fs, xs, rm) ==
    [configs |-> cs, boot |-> bs, pages |-> ts, fetch |-> fs, faults |-> xs,
     rmtree_fails |-> rm]
Configs ==
    [mi : MinInstallsChoices, ma : MaxInstallsChoices, mp : MaxPagesChoices,
     uc : BOOLEAN]

\* ---------------------------------------------------------------- state
VARIABLES
    os_name,        \* os.name
    pc,             \* where the main thread is
    outcome,        \* how the last run ended
    min_installs, max_installs, max_pages, use_cache,   \* the run's arguments
    cache,          \* plugins_cache.json: None, or its text
    first_resp,     \* the answer to the bootstrap GET of page 1, if made
    saved,          \* the list the last json.dump was given
    tasks,          \* the futures of the page range
    page_reqs,      \* GETs issued per page number in this run
    valid_plugins,
    idx,            \* position of the download loop in valid_plugins
    status,         \* per position: Pending, Skipped, Downloaded, Extracted, Failed
    fetches,        \* per position: GETs of the download link
    archive,        \* the members of the archive being extracted
    member_i,       \* position of the member loop in archive
    prior,          \* the files under plugin_path when the plugin was started
    rm_clean,       \* FALSE when rmtree left something of the plugin behind
    fs_dirs, fs_files

cfg_vars == <<min_installs, max_installs, max_pages, use_cache>>
enum_vars == <<tasks, page_reqs>>
dl_vars == <<idx, status, fetches, archive, member_i, prior, rm_clean>>
fs_vars == <<fs_dirs, fs_files>>
vars == <<os_name, pc, outcome, cfg_vars, cache, first_resp, saved, enum_vars,
          valid_plugins, dl_vars, fs_vars>>

NoRequests == [p \in 1 .. MaxTotalPages |-> 0]

Init ==
    /\ os_name \in OsNames
    /\ pc = "idle"
    /\ outcome = "none"
    /\ min_installs = 0 /\ max_installs = None
    /\ max_pages = None /\ use_cache = FALSE
    /\ cache = None
    /\ first_resp = None
    /\ saved = <<>>
    /\ tasks = <<>>
    /\ page_reqs = NoRequests
    /\ valid_plugins = <<>>
    /\ idx = 0 /\ status = <<>> /\ fetches = <<>>
    /\ archive = <<>> /\ member_i = 0
    /\ prior = {} /\ rm_clean = TRUE
    /\ fs_dirs = {} /\ fs_files = {}

\* Lines 146-150: the download loop starts on plugins, or the run ends.
BeginDownload(plugins) ==
    /\ valid_plugins' = plugins
    /\ status' = [i \in 1 .. Len(plugins) |-> "Pending"]
    /\ fetches' = [i \in 1 .. Len(plugins) |-> 0]
    /\ archive' = <<>> /\ member_i' = 0
    /\ prior' = {} /\ rm_clean' = TRUE
    /\ IF plugins = <<>>
       THEN pc' = "done" /\ outcome' = "empty" /\ idx' = 0
       ELSE pc' = "check" /\ outcome' = "running" /\ idx' = 1

\* A start that never looks for the cache file.
StartRunIgnoringCache(mi, ma, mp, uc) ==
    /\ pc = "idle"
    /\ min_installs' = mi /\ max_installs' = ma
    /\ max_pages' = mp /\ use_cache' = uc
    /\ fs_dirs' = fs_dirs \cup Prefixes(PluginsDir)
    /\ pc' = "bootstrap" /\ outcome' = "running"
    /\ UNCHANGED <<valid_plugins, dl_vars>>
    /\ UNCHANGED <<os_name, cache, first_resp, saved, enum_vars, fs_files>>

\* Lines 87-97: the program is started; with use_cache and a cache file it
\* loads the file and goes straight to the download loop.
StartRun(mi, ma, mp, uc) ==
    /\ pc = "idle"
    /\ min_installs' = mi /\ max_installs' = ma
    /\ max_pages' = mp /\ use_cache' = uc
    /\ fs_dirs' = fs_dirs \cup Prefixes(PluginsDir)
    /\ IF uc /\ cache # None
       THEN BeginDownload(json_load(TheValue(cache)))
       ELSE /\ pc' = "bootstrap" /\ outcome' = "running"
            /\ UNCHANGED <<valid_plugins, dl_vars>>
    /\ UNCHANGED <<os_name, cache, first_resp, saved, enum_vars, fs_files>>

\* The process has ended; the files it wrote stay, its memory does not.
Exit ==
    /\ pc = "done"
    /\ pc' = "idle"
    /\ outcome' = "none"
    /\ min_installs' = 0 /\ max_installs' = None
    /\ max_pages' = None /\ use_cache' = FALSE
    /\ tasks' = <<>>
    /\ page_reqs' = NoRequests
    /\ valid_plugins' = <<>>
    /\ idx' = 0 /\ status' = <<>> /\ fetches' = <<>>
    /\ archive' = <<>> /\ member_i' = 0
    /\ prior' = {} /\ rm_clean' = TRUE
    /\ first_resp' = None
    /\ UNCHANGED <<os_name, cache, saved, fs_vars>>

\* The test with the check for "info" left out.
BootstrapFailedOnlyNone(first_page) == first_page = None

\* Line 99.
BootstrapFailed(first_page) ==
    first_page = None \/ ~TheValue(first_page).has_info

\* The list assigned where it should be extended.
ExtendReplacing(plugins, result) == result

\* The list extended by the plugins whose slug it does not hold yet.
ExtendDistinct(plugins, result) ==
    plugins \o SelectSeq(result, LAMBDA r :
                   \A i \in 1 .. Len(plugins) : plugins[i].slug # r.slug)

\* Line 138.
Extend(plugins, result) == plugins \o result

\* Lines 98-107 and 136: page 1 is fetched; without it or its "info" the run
\* returns, with it one future per page of the range is submitted.
Bootstrap(resp) ==
    /\ pc = "bootstrap"
    /\ page_reqs' = [page_reqs EXCEPT ![1] = @ + 1]
    /\ first_resp' = Some(resp)
    /\ LET first_page == get_plugins(resp)
       IN  IF BootstrapFailed(first_page)
           THEN /\ pc' = "done" /\ outcome' = "terminal"
                /\ tasks' = tasks
           ELSE /\ pc' = "pool" /\ outcome' = outcome
                /\ tasks' = [p \in PageRange(TheValue(first_page).pages, max_pages)
                               |-> [st |-> "queued", resp |-> NetErr, result |-> <<>>]]
    /\ UNCHANGED <<os_name, cfg_vars, cache, saved, valid_plugins,
                   dl_vars, fs_vars>>

\* A page-1 task that takes the bootstrap's answer instead of asking again.
TaskRunReusingBootstrap(p, resp) ==
    /\ pc = "pool"
    /\ p \in DOMAIN tasks
    /\ tasks[p].st = "queued"
    /\ LET used == IF p = 1 THEN TheValue(first_resp) ELSE resp
       IN  /\ page_reqs' = IF p = 1 THEN page_reqs
                           ELSE [page_reqs EXCEPT ![p] = @ + 1]
           /\ tasks' = [tasks EXCEPT ![p] =
                           [st |-> "completed", resp |-> used,
                            result |-> process_page(used, min_installs, max_installs)]]
    /\ UNCHANGED <<os_name, pc, outcome, cfg_vars, cache, first_resp, saved,
                   valid_plugins, dl_vars, fs_vars>>

\* A worker runs process_page(p) (lines 109-133) and its future completes.
TaskRun(p, resp) ==
    /\ pc = "pool"
    /\ p \in DOMAIN tasks
    /\ tasks[p].st = "queued"
    /\ page_reqs' = [page_reqs EXCEPT ![p] = @ + 1]
    /\ tasks' = [tasks EXCEPT ![p] =
                    [st |-> "completed", resp |-> resp,
                     result |-> process_page(resp, min_installs, max_installs)]]
    /\ UNCHANGED <<os_name, pc, outcome, cfg_vars, cache, first_resp, saved,
                   valid_plugins, dl_vars, fs_vars>>

\* Lines 137-138: as_completed hands the main thread a completed future.
Accumulate(p) ==
    /\ pc = "pool"
    /\ p \in DOMAIN tasks
    /\ tasks[p].st = "completed"
    /\ valid_plugins' = Extend(valid_plugins, tasks[p].result)
    /\ tasks' = [tasks EXCEPT ![p].st = "joined"]
    /\ UNCHANGED <<os_name, pc, outcome, cfg_vars, cache, first_resp, saved,
                   page_reqs, dl_vars, fs_vars>>

\* A cache write that does not wait for the futures.
WriteCacheEarly ==
    /\ pc = "pool"
    /\ cache' = Some(json_dump(valid_plugins))
    /\ saved' = valid_plugins
    /\ BeginDownload(valid_plugins)
    /\ UNCHANGED <<os_name, cfg_vars, first_resp, enum_vars, fs_vars>>

\* A cache write that leaves the file alone when the list is empty.
WriteCacheIfNonEmpty ==
    /\ pc = "pool"
    /\ \A p \in DOMAIN tasks : tasks[p].st = "joined"
    /\ IF valid_plugins = <<>>
       THEN UNCHANGED <<cache, saved>>
       ELSE cache' = Some(json_dump(valid_plugins)) /\ saved' = valid_plugins
    /\ BeginDownload(valid_plugins)
    /\ UNCHANGED <<os_name, cfg_vars, first_resp, enum_vars, fs_vars>>

\* Lines 140-150: every future has been taken; the cache is overwritten and
\* the download loop starts.
WriteCache ==
    /\ pc = "pool"
    /\ \A p \in DOMAIN tasks : tasks[p].st = "joined"
    /\ cache' = Some(json_dump(valid_plugins))
    /\ saved' = valid_plugins
    /\ BeginDownload(valid_plugins)
    /\ UNCHANGED <<os_name, cfg_vars, first_resp, enum_vars, fs_vars>>

\* ------------------------------------------------- the download loop
CurPlugin == valid_plugins[idx]
CurPath == PluginPath(CurPlugin.slug)

\* download_and_extract_plugin has returned or raised ValueError: the loop
\* of line 150 moves to the next plugin, and the run ends after the last.
NextPlugin(st) ==
    /\ status' = [status EXCEPT ![idx] = st]
    /\ idx' = idx + 1
    /\ IF idx = Len(valid_plugins)
       THEN pc' = "done" /\ outcome' = "completed"
       ELSE pc' = "check" /\ outcome' = outcome

\* An exception that is no ValueError leaves the loop of line 150: the run
\* ends with the plugins behind idx never tried.
Uncaught ==
    /\ status' = [status EXCEPT ![idx] = "Failed"]
    /\ idx' = idx
    /\ pc' = "done" /\ outcome' = "crashed"

\* The bounds test going on to the fetch without lines 46-49.
DlCheckSkippingRemoval ==
    /\ pc = "check"
    /\ IF InstallsOutOfBounds(Get(CurPlugin, "active_installs", 0),
                              min_installs, max_installs)
       THEN NextPlugin("Skipped")
       ELSE /\ pc' = "fetch"
            /\ UNCHANGED <<outcome, idx, status>>
    /\ UNCHANGED <<os_name, cfg_vars, cache, first_resp, saved, enum_vars,
                   valid_plugins, fetches, archive, member_i, prior, rm_clean,
                   fs_vars>>

\* Lines 30-36 under the except of line 156.
DlCheck ==
    /\ pc = "check"
    /\ IF InstallsOutOfBounds(Get(CurPlugin, "active_installs", 0),
                              min_installs, max_installs)
       THEN NextPlugin("Skipped")
       ELSE /\ pc' = "rmtree"
            /\ UNCHANGED <<outcome, idx, status>>
    /\ UNCHANGED <<os_name, cfg_vars, cache, first_resp, saved, enum_vars,
                   valid_plugins, fetches, archive, member_i, prior, rm_clean,
                   fs_vars>>

\* Lines 46-49: an existing plugin_path is removed, as far as rmtree can.
DlRemove(keep, may_fail) ==
    /\ pc = "rmtree"
    /\ keep \subseteq FilesUnder(fs_files, CurPath)
    /\ keep # {} => may_fail
    /\ prior' = FilesUnder(fs_files, CurPath)
    /\ IF Exists(fs_dirs, fs_files, CurPath)
       THEN /\ fs_files' = RmtreeFiles(fs_files, CurPath, keep)
            /\ fs_dirs' = RmtreeDirs(fs_dirs, CurPath, keep)
            /\ rm_clean' = (keep = {})
       ELSE /\ keep = {}
            /\ rm_clean' = TRUE
            /\ UNCHANGED fs_vars
    /\ pc' = "fetch"
    /\ UNCHANGED <<os_name, outcome, cfg_vars, cache, first_resp, saved, enum_vars,
                   valid_plugins, idx, status, fetches, archive, member_i>>

\* Lines 55-58 with the handlers of lines 79-82.
DlFetch(r) ==
    /\ pc = "fetch"
    /\ "download_link" \notin CurPlugin.keys => r.kind = "neterr"
    /\ fetches' = [fetches EXCEPT ![idx] = @ + 1]
    /\ IF r.kind = "zip"
       THEN /\ archive' = r.zip /\ member_i' = 1
            /\ status' = [status EXCEPT ![idx] = "Downloaded"]
            /\ pc' = "extract"
            /\ UNCHANGED <<outcome, idx>>
       ELSE /\ NextPlugin("Failed")
            /\ UNCHANGED <<archive, member_i>>
    /\ UNCHANGED <<os_name, cfg_vars, cache, first_resp, saved, enum_vars,
                   valid_plugins, prior, rm_clean, fs_vars>>

\* Lines 59-77, one member, with the handlers of lines 81-84.
DlExtractMember(fault) ==
    /\ pc = "extract"
    /\ member_i <= Len(archive)
    /\ LET m == archive[member_i]
           dest_file_path == DestPath(CurPath, m)
           dest_dir == Parent(dest_file_path)
           made == fs_dirs \cup Prefixes(dest_dir)
           Continue == /\ member_i' = member_i + 1
                       /\ UNCHANGED <<pc, outcome, idx, status>>
       IN  CASE MemberSkipped(os_name, m) ->
                    /\ fault = "none"
                    /\ Continue
                    /\ UNCHANGED fs_vars
             [] OTHER ->
                    CASE fault = "mkdir" \/ MkdirFails(fs_files, dest_dir) ->
                             /\ NextPlugin("Failed")
                             /\ UNCHANGED <<member_i, fs_vars>>
                      [] OTHER ->
                             /\ fs_dirs' = made
                             /\ CASE m.is_dir ->
                                         /\ fault = "none"
                                         /\ Continue
                                         /\ UNCHANGED fs_files
                                  [] OTHER ->
                                      CASE OpenFails(made, dest_file_path) ->
                                               /\ NextPlugin("Failed")
                                               /\ UNCHANGED <<member_i, fs_files>>
                                        [] OTHER ->
                                            CASE fault = "copy" \/ m.corrupt = "crc" ->
                                                     /\ fs_files' = WriteFile(fs_files, dest_file_path, "partial")
                                                     /\ NextPlugin("Failed")
                                                     /\ UNCHANGED member_i
                                              [] m.corrupt = "zlib" ->
                                                     /\ fs_files' = WriteFile(fs_files, dest_file_path, "partial")
                                                     /\ Uncaught
                                                     /\ UNCHANGED member_i
                                              [] OTHER ->
                                                     /\ fs_files' = WriteFile(fs_files, dest_file_path, m.data)
                                                     /\ Continue
    /\ UNCHANGED <<os_name, cfg_vars, cache, first_resp, saved, enum_vars,
                   valid_plugins, fetches, archive, prior, rm_clean>>

\* Line 58's with block is left after the last member: the plugin is done.
DlFinish ==
    /\ pc = "extract"
    /\ member_i > Len(archive)
    /\ NextPlugin("Extracted")
    /\ UNCHANGED <<os_name, cfg_vars, cache, first_resp, saved, enum_vars,
                   valid_plugins, fetches, archive, member_i, prior, rm_clean,
                   fs_vars>>

\* One invocation of the program in the environment E.
RunOver(E) ==
    \/ \E c \in E.configs : StartRun(c.mi, c.ma, c.mp, c.uc)
    \/ \E resp \in E.boot : Bootstrap(resp)
    \/ \E p \in 1 .. MaxTotalPages, resp \in E.pages : TaskRun(p, resp)
    \/ \E p \in 1 .. MaxTotalPages : Accumulate(p)
    \/ WriteCache
    \/ DlCheck
    \/ \E keep \in SUBSET fs_files : DlRemove(keep, E.rmtree_fails)
    \/ \E r \in E.fetch : DlFetch(r)
    \/ \E fault \in E.faults : DlExtractMember(fault)
    \/ DlFinish

\* The enumeration in full, the downloads kept short.
EnumEnv ==
    Env(Configs, BootstrapResponses, TaskResponses,
        {Fetched("neterr", <<>>), Fetched("zip", ZGood)}, {"none"}, FALSE)
Next == RunOver(EnumEnv)
Spec == Init /\ [][Next]_vars

\* The downloads in full, the enumeration kept short.
ExtractEnv ==
    Env({[mi |-> 0, ma |-> None, mp |-> None, uc |-> FALSE]},
        BootstrapResponses,
        {NetErr, PageOf(<<rBad, rFoo, rNoDate>>), PageOf(<<rOld, rBar>>)},
        FetchResponses, Faults, TRUE)
NextExtract == RunOver(ExtractEnv)
SpecExtract == Init /\ [][NextExtract]_vars

\* The program invoked again and again on the files earlier runs left.
RunsEnv ==
    Env({c \in Configs : c.mp = None},
        BootstrapResponses,
        {NetErr, PageOf(<<rBad, rFoo, rNoDate>>), PageOf(<<rNoInst, rOld, rBar>>)},
        {Fetched("neterr", <<>>), Fetched("zip", ZGood)}, {"none"}, FALSE)
NextRuns == RunOver(RunsEnv) \/ Exit
SpecRuns == Init /\ [][NextRuns]_vars

\* A registry (or cache) whose plugins carry a path as slug.
SlugEnv ==
    Env({[mi |-> 0, ma |-> None, mp |-> None, uc |-> FALSE]},
        BootstrapResponses,
        {NetErr, PageOf(<<rUp>>), PageOf(<<rBad, rFoo, rNoDate>>)},
        {Fetched("neterr", <<>>), Fetched("zip", ZGood)}, {"none"}, FALSE)
NextSlug == RunOver(SlugEnv)
SpecSlug == Init /\ [][NextSlug]_vars

\* ================================================================ claims
Requested == {p \in DOMAIN page_reqs : page_reqs[p] > 0}

\* The bootstrap GET was answered with a body that has "info".
Enumerated ==
    /\ first_resp # None
    /\ TheValue(first_resp).kind = "json"
    /\ TheValue(first_resp).has_info

\* The enumeration is past the pool: the with block of line 135 was left.
PoolJoined == Enumerated /\ pc # "pool"

TaskFailed(p) == tasks[p].st # "queued" /\ tasks[p].resp.kind # "json"
TaskSucceeded(p) == tasks[p].st # "queued" /\ tasks[p].resp.kind = "json"

\* The spec's filter: install bounds and a well-formed, recent timestamp.
WellFormedStamp(ts) ==
    /\ ts[1] >= 1 /\ ts[1] <= 9999
    /\ ts[2] >= 1 /\ ts[2] <= 12
    /\ ts[3] >= 1 /\ ts[3] <= (IF ts[2] = 2 THEN 29
                                ELSE IF ts[2] \in {4, 6, 9, 11} THEN 30 ELSE 31)
    /\ ts[4] >= 1 /\ ts[4] <= 12
    /\ ts[5] >= 0 /\ ts[5] <= 59
    /\ ts[6] \in {"am", "pm"}
    /\ ts[7] \in {"UTC", "GMT"}
InstallsOf(r) == IF "active_installs" \in r.keys THEN r.active_installs ELSE 0
Accepts(r, mi, ma) ==
    /\ mi <= InstallsOf(r)
    /\ ma = None \/ InstallsOf(r) <= TheValue(ma)
    /\ "last_updated" \in r.keys
    /\ WellFormedStamp(r.last_updated)
    /\ r.last_updated[1] >= NowYear - 2

\* C1. Page-failure isolation: a page task that failed contributes the empty
\* list; every record a successful page accepted is in the aggregated list
\* once its future was taken; and after the pool every future was taken and
\* the aggregated list went on to the cache, whichever tasks failed.
C1_PageFailureIsolation ==
    \A p \in DOMAIN tasks :
        /\ TaskFailed(p) => tasks[p].result = <<>>
        /\ (tasks[p].st = "joined" /\ TaskSucceeded(p)) =>
               \A r \in Range(tasks[p].resp.plugins) :
                   Accepts(r, min_installs, max_installs)
                       => r \in Range(valid_plugins)
        /\ PoolJoined => (tasks[p].st = "joined" /\ saved = valid_plugins)

\* A run in which one page failed and another contributed records.
C1_Witness ==
    /\ PoolJoined
    /\ \E p, q \in DOMAIN tasks :
           /\ TaskFailed(p)
           /\ TaskSucceeded(q)
           /\ tasks[q].result # <<>>
           /\ Range(tasks[q].result) \subseteq Range(valid_plugins)

ReportedPages == TheValue(first_resp).pages
LastPage ==
    IF max_pages = None \/ ReportedPages <= TheValue(max_pages)
    THEN ReportedPages
    ELSE TheValue(max_pages)

\* C4 as stated. Page range: the pages requested in an enumeration run are
\* exactly 1 .. min(T, M), and none above that bound is ever requested.
C4_AsStated ==
    Enumerated =>
        /\ \A p \in Requested : p <= LastPage
        /\ PoolJoined => Requested = 1 .. LastPage

\* C4 amended. The pages requested are exactly {1} and 1 .. min(T, M): the
\* bootstrap requests page 1 whatever the bound, and no other page beyond
\* the bound is ever requested.
C4_PageRange ==
    Enumerated =>
        /\ Requested \subseteq ({1} \cup (1 .. LastPage))
        /\ PoolJoined => Requested = {1} \cup (1 .. LastPage)

\* The registry reports two pages, max_pages is 1, and page 2 was left alone.
C4_Witness ==
    /\ PoolJoined
    /\ ReportedPages = 2
    /\ max_pages = Some(1)
    /\ Requested = {1}

\* C5. Filter predicate: of a page's plugins, process_page returns exactly
\* those within the install bounds whose last_updated parses to a year not
\* before the current year - 2; an unparseable one is left out and the
\* plugins after it are still considered.
C5_FilterPredicate ==
    \A p \in DOMAIN tasks :
        TaskSucceeded(p) =>
            \A i \in 1 .. Len(tasks[p].resp.plugins) :
                LET r == tasks[p].resp.plugins[i]
                IN  (r \in Range(tasks[p].result))
                        <=> Accepts(r, min_installs, max_installs)

\* A page whose first plugin has an unparseable timestamp and installs
\* within the bounds: it is rejected, the plugin after it accepted.
C5_Witness ==
    \E p \in DOMAIN tasks :
        /\ TaskSucceeded(p)
        /\ tasks[p].resp.plugins[1] = rBad
        /\ ~InstallsOutOfBounds(rBad.active_installs, min_installs, max_installs)
        /\ tasks[p].result = <<rFoo>>

\* The bootstrap GET failed or its body had no "info".
BootstrapLost == first_resp # None /\ ~Enumerated

\* The run loaded valid_plugins from the cache file (lines 92-96).
CacheHit == pc \notin {"idle", "bootstrap"} /\ first_resp = None

\* C8. Bootstrap failure is terminal: the step in which page 1 fails or comes
\* without "info" ends the run with no page task, cache and files untouched
\* and no plugin tried, and nothing but the end of the process follows.
C8_BootstrapTerminal ==
    [][ /\ (pc = "bootstrap" /\ BootstrapLost') =>
               /\ pc' = "done"
               /\ tasks' = <<>>
               /\ Requested' = {1} /\ page_reqs'[1] = 1
               /\ cache' = cache
               /\ fs_files' = fs_files /\ fs_dirs' = fs_dirs
               /\ valid_plugins' = <<>> /\ status' = <<>> /\ fetches' = <<>>
        /\ (pc = "done" /\ BootstrapLost) =>
               /\ pc' = "idle"
               /\ cache' = cache
               /\ fs_files' = fs_files /\ fs_dirs' = fs_dirs ]_vars

\* A bootstrap without "info" in a directory that holds a cache and plugins.
C8_Witness ==
    /\ BootstrapLost
    /\ TheValue(first_resp) = NoInfo
    /\ pc = "done"
    /\ cache # None
    /\ fs_files # {}

\* C7. Cache round-trip: a run that loads the cache holds the very list the
\* last enumeration gave json.dump, and its download loop is over that list.
C7_CacheRoundTrip ==
    CacheHit =>
        /\ valid_plugins = saved
        /\ DOMAIN status = 1 .. Len(saved)

\* A cache-enabled run over a cache that holds the same record twice.
C7_Witness ==
    /\ CacheHit
    /\ \E i, j \in 1 .. Len(valid_plugins) : i < j /\ valid_plugins[i] = valid_plugins[j]
    /\ \E i \in 1 .. Len(valid_plugins) : "active_installs" \notin valid_plugins[i].keys

OutOfBounds(r) ==
    \/ InstallsOf(r) < min_installs
    \/ max_installs # None /\ InstallsOf(r) > TheValue(max_installs)

\* C9. Install-bound re-validation: a plugin outside the run's bounds is never
\* fetched, is Skipped once the loop has passed it, and the loop goes on to
\* the plugin after it.
C9_Revalidation ==
    \A i \in DOMAIN status :
        OutOfBounds(valid_plugins[i]) =>
            /\ fetches[i] = 0
            /\ status[i] \in {"Pending", "Skipped"}
            /\ i < idx => status[i] = "Skipped"
            /\ (status[i] = "Skipped" /\ i < Len(valid_plugins)) =>
                   /\ idx > i
                   /\ pc = "done" => status[i + 1] # "Pending"

\* A cached plugin above the new max_installs is skipped and the plugin after
\* it extracted.
C9_Witness ==
    /\ CacheHit
    /\ \E i \in DOMAIN status :
           /\ i < Len(valid_plugins)
           /\ max_installs # None
           /\ InstallsOf(valid_plugins[i]) > TheValue(max_installs)
           /\ status[i] = "Skipped"
           /\ fetches[i] = 0
           /\ status[i + 1] = "Extracted"

\* The tree the member loop builds for archive z in a plugin directory that
\* does not exist yet.
RECURSIVE ExtractOnto(_, _, _, _, _, _)
ExtractOnto(os, pp, z, i, dirs, files) ==
    IF i > Len(z) THEN [dirs |-> dirs, files |-> files]
    ELSE IF MemberSkipped(os, z[i]) THEN ExtractOnto(os, pp, z, i + 1, dirs, files)
    ELSE ExtractOnto(os, pp, z, i + 1,
                     dirs \cup Prefixes(Parent(DestPath(pp, z[i]))),
                     IF z[i].is_dir THEN files
                     ELSE WriteFile(files, DestPath(pp, z[i]), z[i].data))

\* The plugin before idx has been extracted after a removal that left nothing.
JustExtracted ==
    /\ pc = "check" \/ (pc = "done" /\ outcome = "completed")
    /\ idx > 1
    /\ status[idx - 1] = "Extracted"
    /\ rm_clean
LastPath == PluginPath(valid_plugins[idx - 1].slug)

\* C6. Idempotent re-download: whatever a plugin's directory held before, a
\* processing without failures leaves in it the tree that extracting the
\* archive into a fresh directory gives: the same tree for the same archive,
\* and nothing of the earlier archive's for another one.
C6_Idempotent ==
    JustExtracted =>
        LET once == ExtractOnto(os_name, LastPath, archive, 1, {}, {})
        IN  /\ FilesUnder(fs_files, LastPath) = FilesUnder(once.files, LastPath)
            /\ DirsUnder(fs_dirs, LastPath) = DirsUnder(once.dirs, LastPath)

\* A plugin extracted a second time, from an archive without one of the
\* files the first one left.
C6_Witness ==
    /\ JustExtracted
    /\ FilesUnder(fs_files, LastPath) # {}
    /\ \E f \in prior : f.path \notin FilePaths(fs_files)

\* A member the spec calls a traversal: a ".." segment or a leading "/".
Traversal(m) == ".." \in Range(m.parts) \/ m.root

\* C3 as stated. Path-traversal defense: no member with a ".." segment or a
\* leading "/" is ever written, so no file is at the place such a member of
\* any archive names, and no file is outside the plugins directory.
C3_AsStated ==
    /\ \A z \in Archives : \A m \in Range(z) : \A r \in Records :
           Traversal(m) => DestPath(PluginPath(r.slug), m) \notin FilePaths(fs_files)
    /\ \A f \in fs_files : IsPrefix(PluginsDir, f.path)

\* C2 as stated. Plugin-failure isolation: when the run is over, no plugin
\* behind a failed one is left untried.
C2_AsStated ==
    pc = "done" =>
        \A i, j \in DOMAIN status :
            (i < j /\ status[i] = "Failed") => status[j] # "Pending"

\* C10 as stated. Per-plugin state machine and batch completion: a plugin is
\* fetched at most once, and when the run is over every plugin of the list
\* is in one of the terminal states.
C10_AsStated ==
    /\ \A i \in DOMAIN fetches : fetches[i] <= 1
    /\ pc = "done" =>
           \A i \in DOMAIN status : status[i] \in {"Skipped", "Extracted", "Failed"}

\* C11. Cache hit avoids re-querying: a run started with use_cache on an
\* existing cache file goes straight to the download loop over the cached
\* list, and from its start to its end no registry page is requested, no page
\* task exists and the cache file keeps its text.
C11_CacheHitNoQuery ==
    [][ /\ (pc = "idle" /\ use_cache' /\ cache # None) =>
               /\ pc' \in {"check", "done"}
               /\ first_resp' = None
               /\ page_reqs' = NoRequests /\ tasks' = <<>>
               /\ cache' = cache
               /\ valid_plugins' = saved
        /\ CacheHit =>
               /\ cache' = cache
               /\ page_reqs' = NoRequests /\ tasks' = <<>>
               /\ first_resp' = None
               /\ pc' # "idle" => valid_plugins' = valid_plugins ]_vars

\* A cache-enabled run that extracted a cached plugin and is over, without a
\* single page request.
C11_Witness ==
    /\ CacheHit /\ use_cache
    /\ pc = "done" /\ outcome = "completed"
    /\ \E i \in DOMAIN status : status[i] = "Extracted"
    /\ Requested = {}
    /\ cache = Some(json_dump(valid_plugins))

\* The plugin before idx has just reached Extracted.
LastExtracted ==
    /\ pc = "check" \/ (pc = "done" /\ outcome = "completed")
    /\ idx > 1
    /\ status[idx - 1] = "Extracted"

\* C12 as stated. No stale contents: when a plugin whose directory existed
\* reaches Extracted, no file the directory held before and the archive does
\* not have is left in it, also when rmtree could not remove everything.
C12_AsStated ==
    LastExtracted =>
        LET now == ExtractOnto(os_name, LastPath, archive, 1, {}, {})
        IN  \A f \in prior :
                f \in fs_files => f.path \in FilePaths(now.files)

\* The plugin before idx has just been given up after a removal that left
\* nothing behind.
LastFailed ==
    /\ pc = "check" \/ (pc = "done" /\ outcome = "completed")
    /\ idx > 1
    /\ status[idx - 1] = "Failed"
    /\ rm_clean

\* C13 as stated. All-or-nothing extraction: an Extracted plugin has every
\* member that was not skipped in place, and a Failed plugin has no file of
\* its archive left in its directory.
C13_AsStated ==
    /\ LastExtracted =>
           \A i \in 1 .. Len(archive) :
               (~MemberSkipped(os_name, archive[i]) /\ ~archive[i].is_dir) =>
                   DestPath(LastPath, archive[i]) \in FilePaths(fs_files)
    /\ LastFailed => FilesUnder(fs_files, LastPath) = {}

\* C14 as stated. Directory entries: every file stands in directories that
\* exist, and once a plugin is Extracted every directory entry of its
\* archive that was not skipped is a directory under the plugin directory
\* and not a file.
C14_AsStated ==
    /\ \A f \in fs_files : Prefixes(Parent(f.path)) \subseteq fs_dirs
    /\ LastExtracted =>
           \A i \in 1 .. Len(archive) :
               (archive[i].is_dir /\ ~MemberSkipped(os_name, archive[i])) =>
                   /\ DestPath(LastPath, archive[i]) \in fs_dirs
                   /\ DestPath(LastPath, archive[i]) \notin FilePaths(fs_files)

\* C15. Remove-before-fetch ordering: the fetch of a plugin follows the
\* removal step of that plugin and leaves the files alone; files are removed
\* only before the plugin's fetch and written only after its archive has
\* arrived; a failed fetch ends the plugin as Failed with the files as the
\* removal left them, and a plugin the loop has passed keeps its status.
C15_RemoveBeforeFetch ==
    [][ /\ (pc # "fetch" /\ pc' = "fetch") =>
               /\ pc = "rmtree"
               /\ idx' = idx
               /\ rm_clean' => ~Exists(fs_dirs', fs_files', CurPath)
        /\ pc = "fetch" =>
               /\ status[idx] = "Pending" /\ fetches[idx] = 0
               /\ fetches'[idx] = 1
               /\ fs_files' = fs_files /\ fs_dirs' = fs_dirs
               /\ status'[idx] \in {"Downloaded", "Failed"}
               /\ status'[idx] = "Failed" => pc' \in {"check", "done"}
        /\ ~(fs_files \subseteq fs_files') =>
               /\ pc = "rmtree" \/ pc = "extract"
               /\ pc = "rmtree" => fs_files' \subseteq fs_files
        /\ ~(fs_files' \subseteq fs_files) =>
               /\ pc = "extract"
               /\ status[idx] = "Downloaded" /\ fetches[idx] = 1
        /\ \A i \in DOMAIN status :
               i < idx => (i \in DOMAIN status' /\ status'[i] = status[i]) ]_vars

\* The second plugin of a slug whose directory held files: they were removed,
\* the fetch failed, and the directory is still gone.
C15_Witness ==
    /\ LastFailed
    /\ idx > 2
    /\ fetches[idx - 1] = 1
    /\ member_i > Len(archive)
    /\ prior # {}
    /\ ~Exists(fs_dirs, fs_files, LastPath)

\* A plugin is being removed, fetched or extracted.
InProgress(i) ==
    /\ i = idx
    /\ pc \in {"rmtree", "fetch", "extract"}

\* The download loop has touched plugin i.
Started(i) == status[i] # "Pending" \/ fetches[i] > 0 \/ InProgress(i)

\* C16. Phase ordering with join barrier: while a future is still to be
\* taken nothing is written to the cache and no plugin is started; the cache
\* is written in the step that leaves the pool, with every future taken, and
\* that step is the one that starts the download loop; the plugins are then
\* worked on one at a time in list order.
C16_PhaseOrdering ==
    /\ [](/\ pc = "pool" => (status = <<>> /\ fetches = <<>> /\ idx = 0)
          /\ \A i \in DOMAIN status :
                 /\ i > idx => ~Started(i)
                 /\ i < idx => status[i] \in {"Skipped", "Extracted", "Failed"}
                 /\ Started(i) => (\A j \in 1 .. i - 1 : Started(j)))
    /\ [][ /\ cache' # cache =>
                  /\ pc = "pool" /\ pc' \in {"check", "done"}
                  /\ \A p \in DOMAIN tasks : tasks[p].st = "joined"
                  /\ cache' = Some(json_dump(valid_plugins))
           /\ (pc = "pool" /\ pc' # "pool") => cache' = Some(json_dump(valid_plugins'))
           /\ (idx' # idx /\ idx # 0 /\ pc' # "idle") => idx' = idx + 1 ]_vars

\* Two pages were joined, the cache written, and the second plugin of the
\* list is being fetched with the first one finished.
C16_Witness ==
    /\ Enumerated
    /\ Len(tasks) = 2
    /\ cache = Some(json_dump(valid_plugins))
    /\ Len(valid_plugins) >= 2
    /\ idx = 2 /\ pc = "fetch"
    /\ status[1] = "Extracted"

Count(r, seq) == Cardinality({i \in 1 .. Len(seq) : seq[i] = r})

\* How often r stands in the results of the futures 1 .. p already taken.
RECURSIVE CountJoined(_, _)
CountJoined(r, p) ==
    IF p = 0 THEN 0
    ELSE CountJoined(r, p - 1)
         + (IF tasks[p].st = "joined" THEN Count(r, tasks[p].result) ELSE 0)

\* C17. Lossless accumulation: in whatever order the futures complete and
\* are taken, the aggregated list holds every record exactly as often as the
\* results of the futures taken so far hold it, so after the pool it is the
\* multiset union of all results, with the same slug kept as often as it came.
C17_LosslessAccumulation ==
    Enumerated =>
        /\ \A r \in Records :
               Count(r, valid_plugins) = CountJoined(r, Len(tasks))
        /\ Range(valid_plugins) \subseteq Records
        /\ PoolJoined => \A p \in DOMAIN tasks : tasks[p].st = "joined"

\* Page 2 completed before page 1; both returned a plugin of slug foo and
\* both are in the list, page 2's first.
C17_Witness ==
    /\ PoolJoined
    /\ Len(tasks) = 2
    /\ tasks[1].result = <<rFoo>>
    /\ tasks[2].result = <<rNoInst, rBar>>
    /\ valid_plugins = <<rNoInst, rBar, rFoo>>

\* C18 as stated. Slug confinement: whatever the slug, every file lies
\* inside <download_dir>/plugins/, and so does a directory that line 49 is
\* about to remove.
C18_AsStated ==
    /\ \A f \in fs_files :
           IsPrefix(PluginsDir, f.path) /\ Len(f.path) > Len(PluginsDir)
    /\ (pc = "rmtree" /\ Exists(fs_dirs, fs_files, CurPath)) =>
           IsPrefix(PluginsDir, CurPath) /\ Len(CurPath) > Len(PluginsDir)

\* C19. Page 1 double fetch: in an enumeration run whose range is not empty
\* page 1 is requested twice, by the bootstrap and by its task, and every
\* other page of the range once; the plugins of the bootstrap's answer are
\* not used, so with page 1's task failed the list holds what the other
\* tasks returned and nothing else.
C19_PageOneTwice ==
    Enumerated =>
        /\ page_reqs[1] <= 2
        /\ \A p \in DOMAIN page_reqs : p > 1 => page_reqs[p] <= 1
        /\ (PoolJoined /\ LastPage >= 1) =>
               /\ page_reqs[1] = 2
               /\ \A p \in DOMAIN page_reqs :
                      p > 1 => page_reqs[p] = (IF p <= LastPage THEN 1 ELSE 0)
               /\ TaskFailed(1) =>
                      /\ tasks[1].result = <<>>
                      /\ \A r \in Records :
                             Count(r, valid_plugins) = CountJoined(r, Len(tasks))
                      /\ LastPage = 1 => valid_plugins = <<>>

\* The bootstrap's answer held an acceptable plugin, page 1's task failed and
\* page 2's succeeded: the list is page 2's result and the plugin is not in it.
C19_Witness ==
    /\ PoolJoined
    /\ rFoo \in Range(process_page(TheValue(first_resp), min_installs, max_installs))
    /\ 2 \in DOMAIN tasks
    /\ TaskFailed(1)
    /\ page_reqs[1] = 2 /\ page_reqs[2] = 1
    /\ tasks[2].result = <<rNoInst, rBar>>
    /\ valid_plugins = <<rNoInst, rBar>>

\* The text json.dump writes for the empty list.
EmptyCache == Some(json_dump(<<>>))

\* C20. Empty-cache lock-in: the step that leaves the pool writes the
\* aggregated list to the cache also when the list is empty; a run started
\* with use_cache on the empty cache ends at once, with no page request, no
\* plugin tried and cache and files as they were; so an empty cache changes
\* only in a run that was started without use_cache.
C20_EmptyCacheLockIn ==
    [][ /\ (pc = "pool" /\ pc' # "pool") =>
               /\ cache' = Some(json_dump(valid_plugins))
               /\ valid_plugins = <<>> => (cache' = EmptyCache /\ pc' = "done")
        /\ (pc = "idle" /\ use_cache' /\ cache = EmptyCache) =>
               /\ pc' = "done" /\ outcome' = "empty"
               /\ first_resp' = None /\ page_reqs' = NoRequests
               /\ valid_plugins' = <<>> /\ status' = <<>> /\ fetches' = <<>>
               /\ cache' = cache /\ fs_files' = fs_files
        /\ (cache = EmptyCache /\ cache' # cache) => ~use_cache ]_vars

\* A cache-enabled run that found the empty cache of an earlier enumeration
\* and ended without a request, beside the plugins older runs extracted.
C20_Witness ==
    /\ CacheHit /\ use_cache
    /\ cache = EmptyCache /\ saved = <<>>
    /\ pc = "done" /\ outcome = "empty"
    /\ Requested = {}
    /\ status = <<>>
    /\ fs_files # {}

====
